---------------------------- MODULE Spec2Model ----------------------------
(***************************************************************************)
(* Brain Tumor Segmentation API (src/backend.py): the startup handler, the *)
(* liveness endpoint and the two prediction endpoints, as a state machine. *)
(*                                                                         *)
(* Numbers: a probability is an integer number of thousandths (0.5 is 500, *)
(* 1.0 is 1000).  A 2-D array is kept as its shape and the run-length      *)
(* encoding of its cells in row-major order, so that a 128x128 array is a  *)
(* short sequence of runs [v |-> value, n |-> number of cells].            *)
(* A string built by an f-string is the tuple of its parts.                *)
(***************************************************************************)
EXTENDS Integers, Sequences, FiniteSets, TLC

VARIABLES
    phase,      \* "boot" before the startup event has run, "serving" after
    artifact,   \* the model file on disk: "missing", "corrupt" or "ok"
    model,      \* the global `model`: "None" or "Loaded"
    pc,         \* "idle", "predict_read", "batch_read" or "done"
    req,        \* the request being handled (or just answered)
    idx,        \* batch_predict: 1-based position of the loop over files
    results,    \* batch_predict: the list `results`
    resp,       \* the response of the request, once pc = "done"
    work,       \* what the handler did for this request (observation only)
    startup,    \* what load_model did (observation only)
    flights,    \* the requests in flight at once, each with its own locals
    tables,     \* dashboard: the row lists of the two paged tables
    session_state,  \* dashboard: st.session_state, the page index of each table
    screen      \* dashboard: what the last script run rendered

dashboard == <<tables, session_state, screen>>
vars == <<phase, artifact, model, pc, req, idx, results, resp, work,
          startup, flights, dashboard>>

-----------------------------------------------------------------------------
(* Bounds of the model *)

\* longest batch submitted (one more than the limit, to hit the rejection)
MaxFiles == 11
\* longest batch over the full set of batch files
MaxMixed == 3
\* requests in flight at once
MaxInFlight == 2
\* most rows in a paged table of the dashboard
MaxRows == 21

-----------------------------------------------------------------------------
(* Program constants *)

\* `if len(files) > 10`
BatchLimit == 10
\* target_size=(128, 128)
ModelSide == 128
\* `mask > 0.5`, in thousandths
Threshold == 500
One == 2 * Threshold
\* the dashboard's page sizes
page_size2 == 10
page_size4 == 5

-----------------------------------------------------------------------------
(* Strings and exceptions *)

CT_png   == <<"i","m","a","g","e","/","p","n","g">>
CT_bare  == <<"i","m","a","g","e","/">>
CT_short == <<"i","m","a","g","e">>
CT_text  == <<"t","e","x","t","/","p","l","a","i","n">>
ImagePrefix == <<"i","m","a","g","e","/">>

\* str.startswith
StartsWith(s, p) == Len(s) >= Len(p) /\ SubSeq(s, 1, Len(p)) = p

\* UploadFile.content_type: a string, or None when the part declares none
SomeCT(s) == [some |-> TRUE, s |-> s]
NoneCT    == [some |-> FALSE, s |-> <<>>]
ContentTypes == {SomeCT(CT_png), SomeCT(CT_bare), SomeCT(CT_short),
                 SomeCT(CT_text), NoneCT}

Exc(type, msg) == [type |-> type, status |-> 0, msg |-> msg]
HTTPException(status, detail) ==
    [type |-> "HTTPException", status |-> status, msg |-> detail]

MsgNotLoaded  == "Model not loaded. Please ensure the model file exists at the specified path."
MsgNotImage   == "File must be an image"
MsgTooMany    == "Maximum 10 images allowed per batch"
MsgNoneStarts == "'NoneType' object has no attribute 'startswith'"
MsgNonePredict == "'NoneType' object has no attribute 'predict'"
MsgUnidentified == "cannot identify image file"
MsgTruncated  == "image file is truncated"
MsgInference  == "Graph execution error"
MsgPostproc   == "OpenCV error"

\* the decimal digits of a status code
StatusText(status) ==
    IF status = 400 THEN "400" ELSE IF status = 503 THEN "503" ELSE "500"

\* str(e).  An HTTPException prints as "<status>: <detail>" in current
\* Starlette and as the empty string in the releases without __str__.
StrExc(e) ==
    IF e.type = "HTTPException"
    THEN {<<StatusText(e.status), ": ", e.msg>>, <<>>}
    ELSE {<<e.msg>>}

Raise(e) == [ok |-> FALSE, exc |-> e]
Return(v) == [ok |-> TRUE, val |-> v]

-----------------------------------------------------------------------------
(* Uploads *)

\* What the model answers for an image: the cells of its probability map,
\* as leading runs and a background value for the remaining cells.
Pattern(bg, head) == [bg |-> bg, head |-> head]
Run(v, n) == [v |-> v, n |-> n]
P_zero == Pattern(0, <<>>)
P_one  == Pattern(One, <<>>)
P_half == Pattern(Threshold, <<>>)
P_mix  == Pattern(0, <<Run(One, 256), Run(Threshold, 3), Run(Threshold + 1, 2)>>)
P_k512 == Pattern(Threshold, <<Run(900, 512)>>)
Patterns == {P_zero, P_one, P_half, P_mix, P_k512}

Sizes == {<<128, 128>>, <<64, 32>>, <<256, 256>>}
\* grey levels of an upload (0..255) besides the usual one
Greys == {0, 1, 100, 255}
Faults == {"preprocess", "predict", "postprocess"}

\* The bytes of an upload: undecodable, or an image of size (w, h).  `fault`
\* names the stage that raises for this image, `out` the model's answer.
\* Once the image is in mode L and resized, `grey` is the level of the
\* pixels that are followed and `peak` the highest level in the image; an
\* image of one flat grey has peak = grey.
Corrupt == [kind |-> "corrupt"]
Img(size, fault, out) ==
    [kind |-> "image", w |-> size[1], h |-> size[2], fault |-> fault, out |-> out,
     grey |-> 101, peak |-> 101]
WithGrey(image, g) == [image EXCEPT !.grey = g, !.peak = g]
WithPeak(image, g, pk) == [image EXCEPT !.grey = g, !.peak = pk]
\* (grey, peak) of the images that are not flat
Shaded == {<<0, 1>>, <<0, 200>>, <<1, 255>>}
Images == {Img(s, "none", p) : s \in Sizes, p \in Patterns}
            \cup {Img(s, f, P_mix) : s \in Sizes, f \in Faults}
            \cup {WithGrey(Img(<<128, 128>>, "none", p), g) : p \in Patterns, g \in Greys}
            \cup {WithPeak(Img(<<128, 128>>, "none", P_mix), gp[1], gp[2]) : gp \in Shaded}
Datas == {Corrupt} \cup Images

Upload(name, ct, data) == [filename |-> name, content_type |-> ct, data |-> data]
Files == {Upload("scan.png", ct, d) : ct \in ContentTypes, d \in Datas}

\* The files of batch requests
B_good  == Upload("a.png", SomeCT(CT_png), Img(<<128, 128>>, "none", P_mix))
B_bad   == Upload("b.png", SomeCT(CT_png), Corrupt)
B_text  == Upload("c.png", SomeCT(CT_text), Img(<<64, 32>>, "none", P_one))
B_infer == Upload("d.png", SomeCT(CT_png), Img(<<256, 256>>, "predict", P_mix))
B_trunc == Upload("e.png", NoneCT, Img(<<64, 32>>, "preprocess", P_mix))
LongFiles  == {B_good, B_bad}
BatchFiles == {B_good, B_bad, B_text, B_infer, B_trunc}

\* The batches submitted: every batch of up to MaxFiles files over LongFiles,
\* and every batch of up to MaxMixed files over BatchFiles.  (An empty list
\* never reaches the handler: File(...) makes the field required.)
Batches ==
    UNION {[1..n -> LongFiles] : n \in 1..MaxFiles}
        \cup UNION {[1..n -> BatchFiles] : n \in 1..MaxMixed}

-----------------------------------------------------------------------------
(* load_model *)


\* a startup handler that keeps a handle when the load raised
LoadedHandleOnError(art) ==
    IF art = "missing" THEN "None" ELSE "Loaded"

\* the value of the global `model` when load_model returns
LoadedHandle(art) ==
    IF art = "missing" THEN "None"              \* `return` before the load
    ELSE IF art = "ok" THEN "Loaded"            \* model = load_model(...)
    ELSE "None"                                 \* the load raised: except


\* a startup handler without the try: the exception of the load leaves it
StartupEscapesOnError(art) == art = "corrupt"

\* whether an exception leaves load_model: `except Exception` prints and
\* falls off the end of the handler
StartupEscapes(art) == FALSE

\* whether keras.models.load_model is called: `if not model_path.exists():
\* ... return` comes first
LoadAttempted(art) == art # "missing"

NoStartup == [attempted |-> FALSE, escaped |-> FALSE]

\* a guard that never finds the handle missing
ModelIsNoneNever(m) == FALSE

\* `model is None`
ModelIsNone(m) == m = "None"

-----------------------------------------------------------------------------
(* The pipeline *)

\* Image.open(io.BytesIO(image_data))
ImageOpen(data) ==
    IF data.kind = "corrupt"
    THEN Raise(Exc("UnidentifiedImageError", MsgUnidentified))
    ELSE Return(data)


\* a resize that leaves the image at its original size
ResizeKeepsSize(image, size) == image

\* image.resize(size, Image.LANCZOS): size is (width, height)
Resize(image, size) == [image EXCEPT !.w = size[1], !.h = size[2]]

\* a normalisation that divides no image
NormalizeNoDivision(g, peak) == [num |-> g, den |-> 1]

\* `if img_array.max() > 1.0: img_array = img_array / 255.0`: the value of a
\* cell of level g in an image whose highest level is peak, as a fraction
Normalize(g, peak) ==
    IF peak > 1 THEN [num |-> g, den |-> 255] ELSE [num |-> g, den |-> 1]

\* preprocess_image: the (1, h, w, 1) tensor of the image resized to 128x128
preprocess_image(image) ==
    IF image.fault = "preprocess"
    THEN Raise(Exc("OSError", MsgTruncated))
    ELSE LET resized == Resize(image, <<ModelSide, ModelSide>>)
         IN  Return([shape |-> <<1, resized.h, resized.w, 1>>,
                     val |-> Normalize(resized.grey, resized.peak),
                     fault |-> image.fault, out |-> image.out])

RECURSIVE RunCells(_)
RunCells(runs) ==
    IF runs = <<>> THEN 0 ELSE Head(runs).n + RunCells(Tail(runs))

\* model.predict(processed_img): a probability map of the input's spatial
\* shape; on the None handle the attribute access raises
ModelPredict(m, tensor) ==
    IF m = "None" THEN Raise(Exc("AttributeError", MsgNonePredict))
    ELSE IF tensor.fault = "predict"
    THEN Raise(Exc("InvalidArgumentError", MsgInference))
    ELSE LET h == tensor.shape[2]
             w == tensor.shape[3]
             head == tensor.out.head
         IN  Return([shape |-> <<1, h, w, 1>>,
                     runs |-> head \o <<Run(tensor.out.bg, h * w - RunCells(head))>>])

\* prediction[0, :, :, 0]
ExtractMask(prediction) ==
    [shape |-> <<prediction.shape[2], prediction.shape[3]>>, runs |-> prediction.runs]


\* a threshold that counts a cell at exactly 0.5
IsTumorInclusive(v) == v >= Threshold

\* one cell of `mask > 0.5`
IsTumor(v) == v > Threshold

\* int(np.sum(mask > 0.5))
RECURSIVE SumTumor(_)
SumTumor(runs) ==
    IF runs = <<>> THEN 0
    ELSE (IF IsTumor(Head(runs).v) THEN Head(runs).n ELSE 0) + SumTumor(Tail(runs))

TumorPixels(mask) == SumTumor(mask.runs)


\* a total that forgets the second dimension
TotalPixelsOneAxis(mask) == mask.shape[1]

\* mask.shape[0] * mask.shape[1]
TotalPixels(mask) == mask.shape[1] * mask.shape[2]

\* a rounding that sends a tie upwards
RoundPercentageHalfUp(tumor, total) ==
    LET q == (10000 * tumor) \div total
        r == (10000 * tumor) % total
    IN  IF 2 * r >= total THEN q + 1 ELSE q

\* round((tumor_pixels / total_pixels) * 100, 2), in hundredths of a percent:
\* the nearest hundredth, a tie going to the even one
RoundPercentage(tumor, total) ==
    LET q == (10000 * tumor) \div total
        r == (10000 * tumor) % total
    IN  IF 2 * r > total THEN q + 1
        ELSE IF 2 * r < total THEN q
        ELSE IF q % 2 = 0 THEN q ELSE q + 1

-----------------------------------------------------------------------------
(* The images of the answer.  An image is its size (w, h), the runs of its *)
(* pixels, and whether it has been resampled to another size (its pixels   *)
(* are then not followed: runs is empty).                                  *)

\* `if original_img.max() <= 1.0: original_img = (original_img * 255).astype(np.uint8)`
ToUint8(val) ==
    IF val.num <= val.den THEN (val.num * 255) \div val.den ELSE val.num \div val.den

\* The rounding of cv2.addWeighted when 0.7*a + 0.3*b falls halfway between
\* two integers depends on its floating-point evaluation: `up` says which way
\* it goes, for a cell under the red layer and for a cell outside it.
Ties == [red : BOOLEAN, plain : BOOLEAN]

\* the two weights of the blend exchanged
BlendChannelSwapped(a, b, up) ==
    LET t == 3 * a + 7 * b
        q == t \div 10
        r == t % 10
    IN  IF r < 5 THEN q ELSE IF r > 5 THEN q + 1 ELSE IF up THEN q + 1 ELSE q

\* one channel of cv2.addWeighted(rgb_img, 0.7, colored_mask, 0.3, 0)
BlendChannel(a, b, up) ==
    LET t == 7 * a + 3 * b
        q == t \div 10
        r == t % 10
    IN  IF r < 5 THEN q ELSE IF r > 5 THEN q + 1 ELSE IF up THEN q + 1 ELSE q

\* one cell of the blend: grey level g under mask value v
OverlayCell(g, v, ties) ==
    IF IsTumor(v)
    THEN <<BlendChannel(g, 255, ties.red), BlendChannel(g, 0, ties.plain),
           BlendChannel(g, 0, ties.plain)>>
    ELSE <<BlendChannel(g, 0, ties.plain), BlendChannel(g, 0, ties.plain),
           BlendChannel(g, 0, ties.plain)>>

\* create_segmentation_overlay: the blend, and whether green contours were
\* drawn over it (there is one around every connected tumor region)
create_segmentation_overlay(original_img, mask, ties) ==
    LET g == ToUint8(original_img.val)
    IN  [w |-> original_img.shape[3], h |-> original_img.shape[2],
         runs |-> [i \in 1..Len(mask.runs) |->
                      [rgb |-> OverlayCell(g, mask.runs[i].v, ties),
                       n |-> mask.runs[i].n]],
         contours |-> SumTumor(mask.runs) > 0,
         resampled |-> FALSE]

\* Image.fromarray((mask * 255).astype(np.uint8))
MaskImage(mask) ==
    [w |-> mask.shape[2], h |-> mask.shape[1],
     runs |-> [i \in 1..Len(mask.runs) |->
                  [v |-> (mask.runs[i].v * 255) \div One, n |-> mask.runs[i].n]],
     resampled |-> FALSE]

\* a guard that never resizes back
NeedsResizeNever(original_size) == FALSE

\* `if original_size != (128, 128)`
NeedsResize(original_size) == original_size # <<128, 128>>

\* img.resize(original_size, Image.LANCZOS) under that guard
ResizeBack(img, original_size) ==
    IF NeedsResize(original_size)
    THEN [Resize(img, original_size) EXCEPT !.runs = <<>>, !.resampled = TRUE]
    ELSE img

\* img.save(buffered, format="PNG"); base64.b64encode(...).decode()
Base64PNG(img) == [encoding |-> "base64", format |-> "PNG", image |-> img]

\* the statistics of one image, or the exception the pipeline raised;
\* `decodes` and `infers` count the calls of Image.open and model.predict
Stats(m, file) ==
    LET opened == ImageOpen(file.data)
    IN  IF ~opened.ok THEN [ok |-> FALSE, exc |-> opened.exc, decodes |-> 1, infers |-> 0]
        ELSE
        LET image == opened.val
            pre == preprocess_image(image)
        IN  IF ~pre.ok THEN [ok |-> FALSE, exc |-> pre.exc, decodes |-> 1, infers |-> 0]
            ELSE
            LET prediction == ModelPredict(m, pre.val)
            IN  IF ~prediction.ok
                THEN [ok |-> FALSE, exc |-> prediction.exc, decodes |-> 1, infers |-> 1]
                ELSE
                LET mask == ExtractMask(prediction.val)
                    tumor_pixels == TumorPixels(mask)
                    total_pixels == TotalPixels(mask)
                IN  [ok |-> TRUE, decodes |-> 1, infers |-> 1,
                     processed_img |-> pre.val, mask |-> mask,
                     original_size |-> <<image.w, image.h>>,
                     tumor_pixels |-> tumor_pixels,
                     total_pixels |-> total_pixels,
                     tumor_percentage |-> RoundPercentage(tumor_pixels, total_pixels)]

-----------------------------------------------------------------------------
(* Responses *)

NoBody == [none |-> TRUE]
NoResp == [status |-> 0, detail |-> <<>>, body |-> NoBody]
NoReq  == [kind |-> "none", files |-> <<>>]
NoWork == [ctype |-> 0, read |-> 0, decode |-> 0, infer |-> 0]

\* raise HTTPException(status_code=..., detail=...) reaching the framework
HTTPError(status, detail) == [status |-> status, detail |-> detail, body |-> NoBody]

\* a returned dict
OK(body) == [status |-> 200, detail |-> <<>>, body |-> body]


\* what the framework answers for an exception that leaves the handler
InternalServerError == HTTPError(500, <<"Internal Server Error">>)

\* an except clause that only catches OSError
PredictionFailedOSErrorOnly(e) ==
    IF e.type = "OSError"
    THEN {HTTPError(500, <<"Prediction failed: ">> \o s) : s \in StrExc(e)}
    ELSE {InternalServerError}

\* except Exception as e:
\*     raise HTTPException(status_code=500, detail=f"Prediction failed: {str(e)}")
PredictionFailed(e) ==
    {HTTPError(500, <<"Prediction failed: ">> \o s) : s \in StrExc(e)}

-----------------------------------------------------------------------------
(* The requests in flight at once and the dashboard, at rest *)

NoFlights == <<>>
NoTables == [intensity_stats |-> 0, sample_rows |-> 0]
NoSession == <<>>
NoScreen == [run |-> "never"]

-----------------------------------------------------------------------------
(* Startup *)

Init ==
    /\ phase = "boot"
    /\ artifact \in {"missing", "corrupt", "ok"}
    /\ model = "None"
    /\ pc = "idle"
    /\ req = NoReq
    /\ idx = 0
    /\ results = <<>>
    /\ resp = NoResp
    /\ work = NoWork
    /\ startup = NoStartup
    /\ flights = NoFlights
    /\ tables = NoTables
    /\ session_state = NoSession
    /\ screen = NoScreen

\* @app.on_event("startup") load_model; the application serves only if the
\* startup handler returns
load_model ==
    /\ phase = "boot"
    /\ phase' = IF StartupEscapes(artifact) THEN "failed" ELSE "serving"
    /\ model' = LoadedHandle(artifact)
    /\ startup' = [attempted |-> LoadAttempted(artifact),
                   escaped |-> StartupEscapes(artifact)]
    /\ UNCHANGED <<artifact, pc, req, idx, results, resp, work, flights, dashboard>>

-----------------------------------------------------------------------------
(* GET /, GET /health, GET /model-info *)

\* a flag that is hard-wired
ModelLoadedFlagAlways(m) == TRUE

\* `model is not None`
ModelLoadedFlag(m) == ~ModelIsNone(m)

\* what the loaded model says of itself
ModelAttributes ==
    [input_shape |-> "(None, 128, 128, 1)",
     output_shape |-> "(None, 128, 128, 1)",
     total_params |-> "count_params()"]

\* a handler without the guard: the attribute access on None raises, and
\* nothing catches it
ModelInfoResponseNoGuard(m) ==
    IF m = "None" THEN InternalServerError
    ELSE OK([model_name |-> "U-Net Brain Tumor Segmentation",
             input_shape |-> ModelAttributes.input_shape,
             output_shape |-> ModelAttributes.output_shape,
             total_params |-> ModelAttributes.total_params,
             architecture |-> "U-Net 2D"])

\* the body of model_info
ModelInfoResponse(m) ==
    IF ModelIsNone(m) THEN HTTPError(503, <<"Model not loaded">>)
    ELSE OK([model_name |-> "U-Net Brain Tumor Segmentation",
             input_shape |-> ModelAttributes.input_shape,
             output_shape |-> ModelAttributes.output_shape,
             total_params |-> ModelAttributes.total_params,
             architecture |-> "U-Net 2D"])

root ==
    /\ phase = "serving"
    /\ pc = "idle"
    /\ req' = [kind |-> "root", files |-> <<>>]
    /\ resp' = OK([message |-> "Brain Tumor Segmentation API",
                   version |-> "1.0.0",
                   model_loaded |-> ModelLoadedFlag(model),
                   endpoints |-> {"POST /predict", "GET /health", "GET /model-info"}])
    /\ work' = NoWork
    /\ pc' = "done"
    /\ UNCHANGED <<phase, artifact, model, idx, results, startup, flights, dashboard>>

health_check ==
    /\ phase = "serving"
    /\ pc = "idle"
    /\ req' = [kind |-> "health", files |-> <<>>]
    /\ resp' = OK([status |-> "healthy", model_loaded |-> ModelLoadedFlag(model),
                   model_path |-> "unet_brain_tumor_final.keras"])
    /\ work' = NoWork
    /\ pc' = "done"
    /\ UNCHANGED <<phase, artifact, model, idx, results, startup, flights, dashboard>>

model_info ==
    /\ phase = "serving"
    /\ pc = "idle"
    /\ req' = [kind |-> "model_info", files |-> <<>>]
    /\ resp' = ModelInfoResponse(model)
    /\ work' = NoWork
    /\ pc' = "done"
    /\ UNCHANGED <<phase, artifact, model, idx, results, startup, flights, dashboard>>

-----------------------------------------------------------------------------
(* POST /predict *)

\* predict_tumor(file), from the call to the first await (file.read())
PredictCall(file) ==
    /\ phase = "serving"
    /\ pc = "idle"
    /\ req' = [kind |-> "predict", files |-> <<file>>]
    /\ UNCHANGED <<phase, artifact, model, idx, results, startup, flights, dashboard>>
    /\ IF ModelIsNone(model)
       THEN /\ resp' = HTTPError(503, <<MsgNotLoaded>>)
            /\ work' = NoWork
            /\ pc' = "done"
       ELSE /\ work' = [NoWork EXCEPT !.ctype = 1]
            /\ IF ~file.content_type.some
               THEN /\ resp' \in PredictionFailed(Exc("AttributeError", MsgNoneStarts))
                    /\ pc' = "done"
               ELSE IF ~StartsWith(file.content_type.s, ImagePrefix)
               THEN /\ resp' \in PredictionFailed(HTTPException(400, MsgNotImage))
                    /\ pc' = "done"
               ELSE /\ resp' = NoResp
                    /\ pc' = "predict_read"

predict_tumor == pc = "idle" /\ \E file \in Files : PredictCall(file)

\* the responses predict_tumor may give once file.read() has returned
PredictFinish(m, file) ==
    LET s == Stats(m, file)
    IN  IF ~s.ok THEN PredictionFailed(s.exc)
        ELSE IF file.data.fault = "postprocess"
        THEN PredictionFailed(Exc("error", MsgPostproc))
        ELSE {LET overlay_img == create_segmentation_overlay(
                                     s.processed_img, s.mask, ties)
                  overlay_pil == ResizeBack(overlay_img, s.original_size)
                  mask_img == ResizeBack(MaskImage(s.mask), s.original_size)
              IN  OK([success |-> TRUE,
                      tumor_pixels |-> s.tumor_pixels,
                      total_pixels |-> s.total_pixels,
                      tumor_percentage |-> s.tumor_percentage,
                      segmented_image |-> Base64PNG(overlay_pil),
                      mask |-> Base64PNG(mask_img),
                      original_size |-> s.original_size,
                      model_size |-> <<128, 128>>]) : ties \in Ties}

\* from the return of file.read() to the response
predict_tumor_read ==
    /\ pc = "predict_read"
    /\ LET file == req.files[1]
           s == Stats(model, file)
       IN  /\ work' = [work EXCEPT !.read = 1, !.decode = s.decodes, !.infer = s.infers]
           /\ resp' \in PredictFinish(model, file)
    /\ pc' = "done"
    /\ UNCHANGED <<phase, artifact, model, req, idx, results, startup, flights, dashboard>>

-----------------------------------------------------------------------------
(* POST /batch-predict *)


\* a limit check that is off by one
BatchTooLargeOffByOne(n) == n >= BatchLimit

\* `len(files) > 10`
BatchTooLarge(n) == n > BatchLimit

\* a success count that counts every entry
CountSuccessfulEveryEntry(rs) == Len(rs)

\* sum(1 for r in results if r["success"])
RECURSIVE CountSuccessful(_)
CountSuccessful(rs) ==
    IF rs = <<>> THEN 0
    ELSE (IF Head(rs).success THEN 1 ELSE 0) + CountSuccessful(Tail(rs))


\* a failure count that counts every entry
CountFailedEveryEntry(rs) == Len(rs)

\* sum(1 for r in results if not r["success"])
RECURSIVE CountFailed(_)
CountFailed(rs) ==
    IF rs = <<>> THEN 0
    ELSE (IF ~Head(rs).success THEN 1 ELSE 0) + CountFailed(Tail(rs))

\* the returned summary
BatchSummary(files, rs) ==
    OK([total_images |-> Len(files),
        successful |-> CountSuccessful(rs),
        failed |-> CountFailed(rs),
        results |-> rs])

\* an entry that reports the fraction where the percentage belongs
SuccessEntryFraction(file, s) ==
    [filename |-> file.filename, success |-> TRUE,
     tumor_pixels |-> s.tumor_pixels,
     tumor_percentage |-> s.tumor_percentage \div 100]

\* the dict appended at the end of the try block
SuccessEntry(file, s) ==
    [filename |-> file.filename, success |-> TRUE,
     tumor_pixels |-> s.tumor_pixels,
     tumor_percentage |-> s.tumor_percentage]

\* a failure entry that also carries zeroed statistics
FailureEntryWithStats(file, e) ==
    [filename |-> file.filename, success |-> FALSE, error |-> e,
     tumor_pixels |-> 0, tumor_percentage |-> 0]

\* the dict appended by the except block, e being str(e)
FailureEntry(file, e) ==
    [filename |-> file.filename, success |-> FALSE, error |-> e]

\* a loop body that validates the content type as predict_tumor does
ItemEntriesChecksType(m, file) ==
    IF ~(file.content_type.some /\ StartsWith(file.content_type.s, ImagePrefix))
    THEN {FailureEntry(file, <<MsgNotImage>>)}
    ELSE LET s == Stats(m, file)
         IN  IF s.ok
             THEN {SuccessEntry(file, s)}
             ELSE {FailureEntry(file, e) : e \in StrExc(s.exc)}

\* the entries one pass of the loop body may append for `file`
ItemEntries(m, file) ==
    LET s == Stats(m, file)
    IN  IF s.ok
        THEN {SuccessEntry(file, s)}
        ELSE {FailureEntry(file, e) : e \in StrExc(s.exc)}

\* an append that puts the newest entry first
AppendResultInFront(rs, entry) == <<entry>> \o rs

\* results.append(...)
AppendResult(rs, entry) == Append(rs, entry)

\* guards that test the size of the batch before the model
BatchGuardSizeFirst(m, n) ==
    IF BatchTooLarge(n) THEN "too_many"
    ELSE IF ModelIsNone(m) THEN "unavailable"
    ELSE "accepted"

\* the two guards before the loop, in their order
BatchGuard(m, n) ==
    IF ModelIsNone(m) THEN "unavailable"
    ELSE IF BatchTooLarge(n) THEN "too_many"
    ELSE "accepted"

\* batch_predict(files), from the call to the first await (files[0].read())
BatchCall(files) ==
    /\ phase = "serving"
    /\ pc = "idle"
    /\ req' = [kind |-> "batch", files |-> files]
    /\ work' = NoWork
    /\ results' = <<>>
    /\ UNCHANGED <<phase, artifact, model, startup, flights, dashboard>>
    /\ IF BatchGuard(model, Len(files)) = "unavailable"
       THEN /\ resp' = HTTPError(503, <<MsgNotLoaded>>)
            /\ idx' = 0
            /\ pc' = "done"
       ELSE IF BatchGuard(model, Len(files)) = "too_many"
       THEN /\ resp' = HTTPError(400, <<MsgTooMany>>)
            /\ idx' = 0
            /\ pc' = "done"
       ELSE /\ resp' = NoResp
            /\ idx' = 1
            /\ pc' = "batch_read"

batch_predict == pc = "idle" /\ \E files \in Batches : BatchCall(files)

\* a loop that stays on an item whose entry is a failure
NextIndexRetryFailed(i, entry) == IF entry.success THEN i + 1 ELSE i

\* `for idx, file in enumerate(files)`: the position after a pass, whatever
\* entry the pass appended
NextIndex(i, entry) == i + 1

\* one pass of the loop: from the return of file.read() to the next await,
\* or to the response after the last file
batch_predict_item ==
    /\ pc = "batch_read"
    /\ LET file == req.files[idx]
           s == Stats(model, file)
       IN  /\ work' = [work EXCEPT !.read = @ + 1, !.decode = @ + s.decodes,
                                   !.infer = @ + s.infers]
           /\ \E entry \in ItemEntries(model, file) :
                 /\ results' = AppendResult(results, entry)
                 /\ IF NextIndex(idx, entry) <= Len(req.files)
                    THEN /\ idx' = NextIndex(idx, entry)
                         /\ resp' = NoResp
                         /\ pc' = "batch_read"
                    ELSE /\ idx' = idx
                         /\ resp' = BatchSummary(req.files, results')
                         /\ pc' = "done"
    /\ UNCHANGED <<phase, artifact, model, req, startup, flights, dashboard>>

-----------------------------------------------------------------------------
(* The response is sent; the handler's locals are gone *)

\* a handler that drops the handle when it is done
ModelAfterRequestCleared(m) == "None"

\* the global `model` when a request handler has returned: only load_model
\* declares `global model`, the handlers read it and never bind it
ModelAfterRequest(m) == m

Respond ==
    /\ pc = "done"
    /\ pc' = "idle"
    /\ req' = NoReq
    /\ resp' = NoResp
    /\ work' = NoWork
    /\ idx' = 0
    /\ results' = <<>>
    /\ model' = ModelAfterRequest(model)
    /\ UNCHANGED <<phase, artifact, startup, flights, dashboard>>

Next ==
    \/ load_model
    \/ root
    \/ health_check
    \/ model_info
    \/ predict_tumor
    \/ predict_tumor_read
    \/ batch_predict
    \/ batch_predict_item
    \/ Respond

Spec == Init /\ [][Next]_vars

-----------------------------------------------------------------------------
(* Several requests in flight.  The handlers are coroutines on one event    *)
(* loop: a call runs from one await to the next without interruption, and   *)
(* the calls interleave at their awaits (file.read()).  Each call has its   *)
(* own locals; the calls share the global `model` only.                     *)

Slots == 1..MaxInFlight

IdleFlight == [pc |-> "idle", req |-> NoReq, idx |-> 0, results |-> <<>>, resp |-> NoResp]

\* the uploads of the concurrent requests: two that differ in their content
\* type only, and an undecodable one
F_png  == B_good
F_text == [B_good EXCEPT !.content_type = SomeCT(CT_text)]
F_bad  == B_bad
F_half == Upload("h.png", SomeCT(CT_png), Img(<<64, 32>>, "none", P_k512))
ConcFiles == {F_png, F_text, F_bad, F_half}
ConcBatches == {<<F_png>>, <<F_text>>, <<F_half>>, <<F_png, F_bad>>,
                <<F_text, F_bad>>, <<F_bad, F_png>>}

\* predict_tumor(file) up to its first await: where the call goes and what
\* it has answered
PredictEnter(m, file) ==
    IF ModelIsNone(m)
    THEN {[pc |-> "done", resp |-> HTTPError(503, <<MsgNotLoaded>>)]}
    ELSE IF ~file.content_type.some
    THEN {[pc |-> "done", resp |-> x] :
             x \in PredictionFailed(Exc("AttributeError", MsgNoneStarts))}
    ELSE IF ~StartsWith(file.content_type.s, ImagePrefix)
    THEN {[pc |-> "done", resp |-> x] :
             x \in PredictionFailed(HTTPException(400, MsgNotImage))}
    ELSE {[pc |-> "predict_read", resp |-> NoResp]}

\* batch_predict(files) up to its first await
BatchEnter(m, files) ==
    IF BatchGuard(m, Len(files)) = "unavailable"
    THEN [pc |-> "done", resp |-> HTTPError(503, <<MsgNotLoaded>>)]
    ELSE IF BatchGuard(m, Len(files)) = "too_many"
    THEN [pc |-> "done", resp |-> HTTPError(400, <<MsgTooMany>>)]
    ELSE [pc |-> "batch_read", resp |-> NoResp]

\* one list `results` for all the calls
ResultsOfShared(r) == 1

\* the call whose frame holds the list `results` that call r appends to:
\* `results = []` binds a local of the call
ResultsOf(r) == r

InitFlights ==
    /\ phase = "boot"
    /\ artifact \in {"missing", "corrupt", "ok"}
    /\ model = "None"
    /\ pc = "idle"
    /\ req = NoReq
    /\ idx = 0
    /\ results = <<>>
    /\ resp = NoResp
    /\ work = NoWork
    /\ startup = NoStartup
    /\ flights = [r \in Slots |-> IdleFlight]
    /\ tables = NoTables
    /\ session_state = NoSession
    /\ screen = NoScreen

backend_alone == <<pc, req, idx, results, resp, work>>

flight_predict ==
    /\ phase = "serving"
    /\ \E r \in Slots :
          /\ flights[r].pc = "idle"
          /\ \E file \in ConcFiles : \E o \in PredictEnter(model, file) :
                flights' = [flights EXCEPT
                               ![r].pc = o.pc,
                               ![r].req = [kind |-> "predict", files |-> <<file>>],
                               ![r].resp = o.resp]
    /\ UNCHANGED <<phase, artifact, model, startup, backend_alone, dashboard>>

flight_predict_read ==
    /\ \E r \in Slots :
          /\ flights[r].pc = "predict_read"
          /\ \E x \in PredictFinish(model, flights[r].req.files[1]) :
                flights' = [flights EXCEPT ![r].pc = "done", ![r].resp = x]
    /\ UNCHANGED <<phase, artifact, model, startup, backend_alone, dashboard>>

flight_batch ==
    /\ phase = "serving"
    /\ \E r \in Slots :
          /\ flights[r].pc = "idle"
          /\ \E files \in ConcBatches :
                LET o == BatchEnter(model, files)
                IN  flights' =
                        IF o.pc = "done"
                        THEN [flights EXCEPT
                                 ![r].pc = o.pc,
                                 ![r].req = [kind |-> "batch", files |-> files],
                                 ![r].resp = o.resp]
                        ELSE [flights EXCEPT
                                 ![r].pc = o.pc,
                                 ![r].req = [kind |-> "batch", files |-> files],
                                 ![r].resp = o.resp,
                                 ![r].idx = 1,
                                 ![ResultsOf(r)].results = <<>>]
    /\ UNCHANGED <<phase, artifact, model, startup, backend_alone, dashboard>>

flight_batch_item ==
    /\ \E r \in Slots :
          /\ flights[r].pc = "batch_read"
          /\ LET files == flights[r].req.files
                 i == flights[r].idx
             IN  \E entry \in ItemEntries(model, files[i]) :
                   LET rs == AppendResult(flights[ResultsOf(r)].results, entry)
                   IN  flights' =
                           IF NextIndex(i, entry) <= Len(files)
                           THEN [flights EXCEPT
                                    ![ResultsOf(r)].results = rs,
                                    ![r].idx = NextIndex(i, entry)]
                           ELSE [flights EXCEPT
                                    ![ResultsOf(r)].results = rs,
                                    ![r].pc = "done",
                                    ![r].resp = BatchSummary(files, rs)]
    /\ UNCHANGED <<phase, artifact, model, startup, backend_alone, dashboard>>

\* the response of a call is sent; its locals are gone
flight_respond ==
    /\ \E r \in Slots :
          /\ flights[r].pc = "done"
          /\ flights' = [flights EXCEPT ![r] = IdleFlight]
    /\ model' = ModelAfterRequest(model)
    /\ UNCHANGED <<phase, artifact, startup, backend_alone, dashboard>>

NextFlights ==
    \/ load_model
    \/ flight_predict
    \/ flight_predict_read
    \/ flight_batch
    \/ flight_batch_item
    \/ flight_respond

SpecFlights == InitFlights /\ [][NextFlights]_vars

-----------------------------------------------------------------------------
(* The dashboard (src/streamlit_app.py): the paged tables of the Statistics *)
(* page.  Every interaction runs the script from top to bottom once; a      *)
(* button is true in the run its click has triggered, and only a button     *)
(* that the previous run rendered can be clicked.                           *)

Tables == {"stats2", "stats4"}

\* the session key f"stats2_page_{json_file.name}" of a table
Key(table) == IF table = "stats2" THEN "stats2_page" ELSE "stats4_page"
PageSize(table) == IF table = "stats2" THEN page_size2 ELSE page_size4
\* len(data['intensity_stats']), len(data['sample_rows'])
Rows(table) == IF table = "stats2" THEN tables.intensity_stats ELSE tables.sample_rows

\* `if key not in st.session_state: st.session_state[key] = 0`
WithKey(ss, key) ==
    [k \in DOMAIN ss \cup {key} |-> IF k \in DOMAIN ss THEN ss[k] ELSE 0]

\* len(rows[start:end]) of a list of n rows
SliceLen(n, start, end) ==
    LET stop == IF end < n THEN end ELSE n
    IN  IF stop > start THEN stop - start ELSE 0

\* a Next that also moves when the page ends on the last row
NextAllowedInclusive(end, n) == end <= n

\* `if end2 < len(data['intensity_stats'])`
NextAllowed(end, n) == end < n

\* one run of the script with `table` on the page; click is "none", "next"
\* or "prev"
ScriptRun(table, click) ==
    LET key == Key(table)
        ss == WithKey(session_state, key)
        start == ss[key] * PageSize(table)
        end == start + PageSize(table)
        n == Rows(table)
        after_next == IF click = "next" /\ NextAllowed(end, n)
                      THEN ss[key] + 1 ELSE ss[key]
        prev_button == after_next > 0
        after_prev == IF prev_button /\ click = "prev"
                      THEN after_next - 1 ELSE after_next
    IN  /\ session_state' = [ss EXCEPT ![key] = after_prev]
        /\ screen' = [run |-> click, table |-> table,
                      first |-> start + 1,
                      count |-> SliceLen(n, start, end),
                      prev_button |-> prev_button]
        /\ UNCHANGED <<phase, artifact, model, pc, req, idx, results, resp, work,
                       startup, flights, tables>>

InitDashboard ==
    /\ phase = "boot"
    /\ artifact = "ok"
    /\ model = "None"
    /\ pc = "idle"
    /\ req = NoReq
    /\ idx = 0
    /\ results = <<>>
    /\ resp = NoResp
    /\ work = NoWork
    /\ startup = NoStartup
    /\ flights = NoFlights
    /\ tables \in [intensity_stats : 0..MaxRows, sample_rows : 0..MaxRows]
    /\ session_state = NoSession
    /\ screen = NoScreen

\* the page is opened, or another widget (the folder selection) changes
script_rerun ==
    /\ \E table \in Tables : ScriptRun(table, "none")

\* the Next button of the table on the screen is clicked
click_next ==
    /\ screen.run # "never"
    /\ ScriptRun(screen.table, "next")

\* the Previous button of the table on the screen is clicked
click_prev ==
    /\ screen.run # "never"
    /\ screen.prev_button
    /\ ScriptRun(screen.table, "prev")

NextDashboard ==
    \/ script_rerun
    \/ click_next
    \/ click_prev

SpecDashboard == InitDashboard /\ [][NextDashboard]_vars

-----------------------------------------------------------------------------
(* The statistics for every number of tumor cells: a loaded model answering *)
(* a 128x128 upload with k cells at probability 1.0 and the rest at 0.0     *)

StatFile(k) ==
    Upload("scan.png", SomeCT(CT_png),
           Img(<<128, 128>>, "none", Pattern(0, <<Run(One, k)>>)))

InitPercent == Init /\ artifact = "ok"

predict_tumor_k ==
    pc = "idle" /\ \E k \in 0..(ModelSide * ModelSide) : PredictCall(StatFile(k))

batch_predict_k ==
    pc = "idle" /\ \E k \in 0..(ModelSide * ModelSide) : BatchCall(<<StatFile(k)>>)

NextPercent ==
    \/ load_model
    \/ predict_tumor_k
    \/ predict_tumor_read
    \/ batch_predict_k
    \/ batch_predict_item
    \/ Respond

SpecPercent == InitPercent /\ [][NextPercent]_vars


-----------------------------------------------------------------------------
(* Properties *)

Answered(kind) == pc = "done" /\ req.kind = kind
TheFile == req.files[1]
DeclaresImage(file) ==
    file.content_type.some /\ StartsWith(file.content_type.s, <<"i","m","a","g","e","/">>)
NonEmptyText(t) == \E j \in 1..Len(t) : t[j] # ""

\* C1: when the model is not loaded, every POST /predict is answered 503 at
\* once: the handler never waits for the upload, and it has inspected no
\* content type, read no bytes, decoded no image and called no inference.
C1_Unloaded503BeforeWork ==
    (req.kind = "predict" /\ model = "None") =>
        /\ pc = "done"
        /\ resp.status = 503
        /\ resp.detail = <<MsgNotLoaded>>
        /\ work = NoWork

C1_Witness ==
    /\ Answered("predict") /\ model = "None" /\ resp.status = 503
    /\ DeclaresImage(TheFile) /\ TheFile.data.kind = "image"

\* C2: if the model file is missing or its load fails at startup, then in
\* every state after startup the handle is None, every POST /predict is
\* answered 503 (no prediction, no converted or escaped exception) and every
\* GET /health answers 200 with model_loaded false.
C2_FailedLoadStays503 ==
    (phase = "serving" /\ artifact # "ok") =>
        /\ model = "None"
        /\ req.kind = "predict" =>
               pc = "done" /\ resp.status = 503 /\ resp.body = NoBody
        /\ req.kind = "health" =>
               resp.status = 200 /\ resp.body.model_loaded = FALSE

C2_Witness ==
    /\ artifact = "corrupt" /\ Answered("predict") /\ resp.status = 503

\* C3: with the model loaded, a POST /predict whose declared content type
\* does not start with "image/" is answered 400 with detail "File must be an
\* image", and the upload is neither read nor decoded.
C3_NonImageIs400 ==
    (Answered("predict") /\ model = "Loaded"
        /\ TheFile.content_type.some /\ ~DeclaresImage(TheFile)) =>
        /\ resp.status = 400
        /\ resp.detail = <<MsgNotImage>>
        /\ work.read = 0 /\ work.decode = 0

\* C4: with the model loaded, a POST /predict whose bytes cannot be decoded
\* as an image is answered with a client error (4xx), not a server error.
C4_UndecodableIsClientError ==
    (Answered("predict") /\ model = "Loaded"
        /\ DeclaresImage(TheFile) /\ TheFile.data.kind = "corrupt") =>
        resp.status \in 400..499

\* C5: with the model loaded, an exception raised while preprocessing,
\* running inference or postprocessing a POST /predict gives status 500 with
\* detail "Prediction failed: " followed by the exception's message; every
\* answer of the handler is a result or such a converted failure.
C5_PipelineFailureIs500 ==
    (Answered("predict") /\ model = "Loaded") =>
        /\ \/ resp.status = 200
           \/ resp.status = 500 /\ Head(resp.detail) = "Prediction failed: "
        /\ (work.read = 1 /\ TheFile.data.kind = "image") =>
              LET fault == TheFile.data.fault
              IN  /\ fault = "preprocess" => resp = HTTPError(500,
                        <<"Prediction failed: ", "image file is truncated">>)
                  /\ fault = "predict" => resp = HTTPError(500,
                        <<"Prediction failed: ", "Graph execution error">>)
                  /\ fault = "postprocess" => resp = HTTPError(500,
                        <<"Prediction failed: ", "OpenCV error">>)

C5_Witness ==
    /\ Answered("predict") /\ model = "Loaded" /\ work.infer = 1
    /\ TheFile.data.kind = "image" /\ TheFile.data.fault = "predict"
    /\ resp.status = 500

\* C6: with the model loaded, a batch of more than 10 files is answered 400
\* without entering the loop: no file is read, decoded or sent to inference;
\* a batch of exactly 10 files is processed, every file read once.
C6_OverLimitRejected ==
    (req.kind = "batch" /\ model = "Loaded") =>
        /\ Len(req.files) > 10 =>
              /\ pc = "done"
              /\ resp.status = 400
              /\ resp.detail = <<MsgTooMany>>
              /\ work = NoWork /\ results = <<>>
        /\ (Len(req.files) = 10 /\ pc = "done") =>
              /\ resp.status = 200
              /\ work.read = 10
              /\ Len(resp.body.results) = 10

C6_Witness ==
    /\ Answered("batch") /\ model = "Loaded" /\ Len(req.files) = 11
    /\ resp.status = 400

\* C7: with the model loaded and n <= 10 files, a failing item (decode,
\* preprocessing or inference) does not abort the batch: the answer is 200,
\* exactly the k failing items have success false and a non-empty error,
\* every other item has success true, successful = n - k and failed = k.
ItemFails(file) ==
    \/ file.data.kind = "corrupt"
    \/ file.data.kind = "image" /\ file.data.fault \in {"preprocess", "predict"}

C7_FailuresIsolated ==
    (Answered("batch") /\ model = "Loaded" /\ Len(req.files) <= 10) =>
        LET n == Len(req.files)
            k == Cardinality({i \in 1..n : ItemFails(req.files[i])})
            rs == resp.body.results
        IN  /\ resp.status = 200
            /\ Len(rs) = n
            /\ \A i \in 1..n :
                  IF ItemFails(req.files[i])
                  THEN ~rs[i].success /\ NonEmptyText(rs[i].error)
                  ELSE rs[i].success
            /\ resp.body.successful = n - k
            /\ resp.body.failed = k

C7_Witness ==
    /\ Answered("batch") /\ model = "Loaded" /\ Len(req.files) = 3
    /\ Cardinality({i \in 1..3 : req.files[i].data.kind = "corrupt"}) = 1
    /\ resp.body.successful = 2 /\ resp.body.failed = 1
    /\ \E i \in 1..3 : ~resp.body.results[i].success

\* C8: every successful POST /predict reports total_pixels = 16384, whatever
\* the width and height of the upload.
C8_TotalPixels16384 ==
    (Answered("predict") /\ resp.status = 200) => resp.body.total_pixels = 16384

C8_Witness ==
    /\ Answered("predict") /\ resp.status = 200
    /\ resp.body.original_size = <<64, 32>>
    /\ resp.body.total_pixels = 16384

\* C9: in every successful single or batch result, tumor_pixels is the number
\* of cells of the model's 128x128 probability map that are strictly above
\* 0.5: a cell at exactly 0.5 is background, and an all-zero map gives 0.
RECURSIVE CellsAbove(_, _)
CellsAbove(runs, level) ==
    IF runs = <<>> THEN 0
    ELSE (IF Head(runs).v - level >= 1 THEN Head(runs).n ELSE 0)
             + CellsAbove(Tail(runs), level)

MapOf(file) ==
    file.data.out.head
        \o <<[v |-> file.data.out.bg, n |-> 16384 - RunCells(file.data.out.head)]>>

C9_StrictThreshold ==
    /\ (Answered("predict") /\ resp.status = 200) =>
          /\ resp.body.tumor_pixels = CellsAbove(MapOf(TheFile), 500)
          /\ TheFile.data.out = P_zero => resp.body.tumor_pixels = 0
          /\ TheFile.data.out = P_half => resp.body.tumor_pixels = 0
          /\ TheFile.data.out = P_mix => resp.body.tumor_pixels = 258
    /\ (Answered("batch") /\ resp.status = 200) =>
          \A i \in 1..Len(req.files) :
              resp.body.results[i].success =>
                  resp.body.results[i].tumor_pixels
                      = CellsAbove(MapOf(req.files[i]), 500)

C9_Witness ==
    /\ Answered("predict") /\ resp.status = 200
    /\ TheFile.data.out = P_mix
    /\ resp.body.tumor_pixels = 258

\* C10: every successful POST /predict has 0 <= tumor_pixels <= total_pixels.
C10_TumorWithinTotal ==
    (Answered("predict") /\ resp.status = 200) =>
        /\ 0 <= resp.body.tumor_pixels
        /\ resp.body.tumor_pixels <= resp.body.total_pixels

C10_Witness ==
    /\ Answered("predict") /\ resp.status = 200
    /\ TheFile.data.out = P_one
    /\ resp.body.tumor_pixels = resp.body.total_pixels

\* C11: for every number k of tumor cells in 0..16384 the reported
\* tumor_percentage is 100*k/16384 rounded to 2 decimals, a tie going to the
\* even hundredth (k = 256 gives 1.56, k = 512 gives 3.12), in the single and
\* in the batch endpoint.  Percentages are in hundredths.
NearestHundredth(p, k) ==
    LET d == 10000 * k - 16384 * p
    IN  \/ -16384 < 2 * d /\ 2 * d < 16384
        \/ (2 * d = 16384 \/ 2 * d = -16384) /\ p % 2 = 0

C11_PercentageHalfEven ==
    /\ (Answered("predict") /\ resp.status = 200) =>
          /\ resp.body.tumor_pixels \in 0..16384
          /\ NearestHundredth(resp.body.tumor_percentage, resp.body.tumor_pixels)
          /\ resp.body.tumor_pixels = 256 => resp.body.tumor_percentage = 156
          /\ resp.body.tumor_pixels = 512 => resp.body.tumor_percentage = 312
    /\ (Answered("batch") /\ resp.status = 200) =>
          \A i \in 1..Len(resp.body.results) :
              resp.body.results[i].success =>
                  NearestHundredth(resp.body.results[i].tumor_percentage,
                                   resp.body.results[i].tumor_pixels)

C11_Witness ==
    /\ Answered("batch") /\ resp.status = 200
    /\ resp.body.results[1].success
    /\ resp.body.results[1].tumor_pixels = 1536
    /\ resp.body.results[1].tumor_percentage = 938

\* C12: in every successful POST /batch-predict answer, total_images is the
\* number of submitted files and results has one entry per file, in
\* submission order: results[i].filename is the filename of the i-th file.
C12_ResultsInSubmissionOrder ==
    (Answered("batch") /\ resp.status = 200) =>
        /\ resp.body.total_images = Len(req.files)
        /\ Len(resp.body.results) = Len(req.files)
        /\ \A i \in 1..Len(req.files) :
              resp.body.results[i].filename = req.files[i].filename

C12_Witness ==
    /\ Answered("batch") /\ resp.status = 200
    /\ Len(req.files) = 3
    /\ resp.body.total_images = 3
    /\ resp.body.results[1].filename = "c.png"
    /\ resp.body.results[2].filename = "a.png"
    /\ resp.body.results[3].filename = "b.png"

\* C13: every entry of a batch answer's results has one of two shapes:
\* success true with tumor_pixels and tumor_percentage and no error key, or
\* success false with an error key and neither statistic.
C13_EntryShapes ==
    (Answered("batch") /\ resp.status = 200) =>
        \A i \in 1..Len(resp.body.results) :
            LET r == resp.body.results[i]
            IN  IF r.success
                THEN DOMAIN r = {"filename", "success", "tumor_pixels", "tumor_percentage"}
                ELSE DOMAIN r = {"filename", "success", "error"}

C13_Witness ==
    /\ Answered("batch") /\ resp.status = 200
    /\ \E i, j \in 1..Len(resp.body.results) :
          /\ resp.body.results[i].success
          /\ "tumor_pixels" \in DOMAIN resp.body.results[i]
          /\ ~resp.body.results[j].success
          /\ "error" \in DOMAIN resp.body.results[j]

\* the image a client gets by decoding a base64 PNG field of the answer
Decoded(field) == field.image

\* C14: the mask image of a POST /predict answer is binary: every pixel of
\* the 128x128 mask image (as it is before any resize back) is 0 or 255, and
\* 255 marks exactly the cells whose probability is above 0.5.
C14_MaskImageBinary ==
    (Answered("predict") /\ resp.status = 200
        /\ ~Decoded(resp.body.mask).resampled) =>
        LET img == Decoded(resp.body.mask)
            map == MapOf(TheFile)
        IN  /\ Len(img.runs) = Len(map)
            /\ \A i \in 1..Len(map) :
                  /\ img.runs[i].n = map[i].n
                  /\ img.runs[i].v = IF map[i].v - 500 >= 1 THEN 255 ELSE 0

\* C15: for an upload of size 128x128 (no resampling) the number of pixels of
\* the returned mask image above 127 equals the reported tumor_pixels,
\* whatever probability map the model gives.
C15_MaskRoundTrip ==
    (Answered("predict") /\ resp.status = 200
        /\ resp.body.original_size = <<128, 128>>) =>
        CellsAbove(Decoded(resp.body.mask).runs, 127) = resp.body.tumor_pixels

\* C16: in every successful POST /predict answer original_size is the
\* (width, height) of the decoded upload, the overlay image and the mask
\* image both have exactly that size, and they are resampled if and only if
\* that size differs from 128x128.
C16_ImagesAtOriginalSize ==
    (Answered("predict") /\ resp.status = 200) =>
        LET size == <<TheFile.data.w, TheFile.data.h>>
            overlay == Decoded(resp.body.segmented_image)
            img == Decoded(resp.body.mask)
        IN  /\ resp.body.original_size = size
            /\ <<overlay.w, overlay.h>> = size
            /\ <<img.w, img.h>> = size
            /\ overlay.resampled <=> (size[1] # 128 \/ size[2] # 128)
            /\ img.resampled <=> (size[1] # 128 \/ size[2] # 128)

C16_Witness ==
    /\ Answered("predict") /\ resp.status = 200
    /\ resp.body.original_size = <<64, 32>>
    /\ Decoded(resp.body.mask).w = 64 /\ Decoded(resp.body.mask).h = 32
    /\ Decoded(resp.body.segmented_image).resampled

\* C17: in the 128x128 overlay, away from the contour lines, a tumor cell of
\* grey level g is (0.7*g + 0.3*255, 0.7*g, 0.7*g) to the nearest integer and
\* a cell outside the tumor keeps g in all three channels.
Rounds(x, tenths) == 10 * x - tenths \in -5..5

C18_HealthReportsLoadState ==
    /\ Answered("health") =>
          /\ resp.status = 200
          /\ resp.body.status = "healthy"
          /\ resp.body.model_loaded <=> artifact = "ok"
    /\ Answered("root") =>
          /\ resp.status = 200
          /\ resp.body.model_loaded <=> artifact = "ok"

C18_Witness ==
    /\ Answered("health") /\ artifact = "missing"
    /\ resp.status = 200 /\ resp.body.status = "healthy"
    /\ ~resp.body.model_loaded

\* C19: GET /model-info answers 200 with input_shape, output_shape and
\* total_params exactly when the model is loaded; when it is not, the answer
\* is 503 with detail "Model not loaded" and the missing model is never
\* dereferenced (no exception leaves the handler).
C19_ModelInfoGuarded ==
    Answered("model_info") =>
        /\ resp.status = 200 <=> model = "Loaded"
        /\ resp.status = 200 =>
              {"input_shape", "output_shape", "total_params"} \subseteq DOMAIN resp.body
        /\ model = "None" =>
              /\ resp.status = 503
              /\ resp.detail = <<"Model not loaded">>
              /\ resp.body = NoBody

C19_Witness ==
    /\ Answered("model_info") /\ model = "None" /\ resp.status = 503

\* C20: when the model is not loaded, POST /batch-predict answers 503 for a
\* batch of any size, more than 10 files included, without reading a file.
C20_BatchUnavailableFirst ==
    (req.kind = "batch" /\ model = "None") =>
        /\ pc = "done"
        /\ resp.status = 503
        /\ resp.detail = <<MsgNotLoaded>>
        /\ work = NoWork
        /\ results = <<>>

C20_Witness ==
    /\ Answered("batch") /\ model = "None"
    /\ Len(req.files) = 11
    /\ resp.status = 503

\* C21: the global model handle is written at most once, by the startup
\* handler only: no step of a request handler changes it, so once startup
\* has completed it keeps its value through every sequence of requests.
C21_HandleWrittenOnlyAtStartup ==
    [][/\ model' # model => (phase = "boot" /\ phase' = "serving")
       /\ phase = "serving" => (phase' = "serving" /\ model' = model)]_vars

C21_Witness ==
    /\ phase = "serving" /\ model = "Loaded"
    /\ Answered("batch") /\ resp.status = 200
    /\ Len(resp.body.results) = 3

\* C23: an accepted batch is handled in submission order, one file at a
\* time: when item i+1 is about to be read, items 1..i have each been read
\* once, sent to inference at most once and given their one result entry,
\* failed or not; at the end every file has been read exactly once.
C23_SequentialNoRetry ==
    (req.kind = "batch" /\ model = "Loaded" /\ Len(req.files) <= 10) =>
        /\ work.read = Len(results)
        /\ work.decode = work.read
        /\ work.infer <= work.read
        /\ pc = "batch_read" => (idx = Len(results) + 1 /\ idx <= Len(req.files))
        /\ pc = "done" => Len(results) = Len(req.files)
        /\ \A i \in 1..Len(results) : results[i].filename = req.files[i].filename

C23_Witness ==
    /\ req.kind = "batch" /\ pc = "batch_read" /\ idx = 3
    /\ Len(req.files) = 3
    /\ ~results[1].success /\ ~results[2].success
    /\ work.read = 2 /\ work.infer = 1

\* C24: for every upload that decodes and preprocesses, the tensor given to
\* the model has shape (1, 128, 128, 1) and its cells lie in [0, 1]: a cell
\* of level g is g/255 when the resized image's highest level exceeds 1, and
\* g itself otherwise.
C24_TensorInUnitRange ==
    (Answered("predict") /\ model = "Loaded" /\ work.infer = 1) =>
        LET image == TheFile.data
            tensor == preprocess_image(image).val
        IN  /\ tensor.shape = <<1, 128, 128, 1>>
            /\ 0 <= tensor.val.num /\ tensor.val.num <= tensor.val.den
            /\ tensor.val.num = image.grey
            /\ tensor.val.den = IF image.peak >= 2 THEN 255 ELSE 1

C24_Witness ==
    /\ Answered("predict") /\ resp.status = 200
    /\ TheFile.data.grey = 1 /\ TheFile.data.peak = 255
    /\ preprocess_image(TheFile.data).val.val = [num |-> 1, den |-> 255]

\* C25: in every batch response successful + failed = total_images =
\* len(results), for every batch of 1 to 10 files and every combination of
\* outcomes of its items.
C25_CountsAddUp ==
    (Answered("batch") /\ resp.status = 200) =>
        LET b == resp.body
        IN  /\ Len(req.files) \in 1..10
            /\ b.total_images = Len(req.files)
            /\ Len(b.results) = b.total_images
            /\ b.successful + b.failed = b.total_images
            /\ b.successful = Cardinality({i \in 1..Len(b.results) : b.results[i].success})

C25_Witness ==
    /\ Answered("batch") /\ resp.status = 200
    /\ resp.body.total_images = 10
    /\ resp.body.successful = 4 /\ resp.body.failed = 6
    /\ Len(resp.body.results) = 10

\* C28: the startup handler always returns without raising, whether the
\* model file is missing, its load raises or its load succeeds; it calls the
\* load only when the file exists, and afterwards the handle is not None
\* exactly when the load succeeded.
C28_StartupNeverRaises ==
    phase # "boot" =>
        /\ phase = "serving"
        /\ ~startup.escaped
        /\ startup.attempted <=> artifact \in {"ok", "corrupt"}
        /\ model # "None" <=> artifact = "ok"

C28_Witness ==
    /\ phase = "serving" /\ artifact = "corrupt"
    /\ startup.attempted /\ ~startup.escaped /\ model = "None"

\* What a request is answered when it runs alone, from the call to the
\* response with nothing in between.
RECURSIVE AloneResults(_, _)
AloneResults(m, files) ==
    IF files = <<>> THEN {<<>>}
    ELSE {<<e>> \o rest : e \in ItemEntries(m, Head(files)),
                          rest \in AloneResults(m, Tail(files))}

Alone(m, request) ==
    IF request.kind = "predict"
    THEN LET outs == PredictEnter(m, request.files[1])
         IN  {o.resp : o \in {x \in outs : x.pc = "done"}}
                 \cup (IF \E o \in outs : o.pc = "predict_read"
                       THEN PredictFinish(m, request.files[1]) ELSE {})
    ELSE LET o == BatchEnter(m, request.files)
         IN  IF o.pc = "done" THEN {o.resp}
             ELSE {BatchSummary(request.files, rs) : rs \in AloneResults(m, request.files)}

\* C22: with several /predict and /batch-predict requests in flight, under
\* every interleaving at their awaits, each response is one the request
\* gets when it runs alone (it depends on its own uploads and the model
\* only), and a request that has been answered leaves nothing behind.
C22_AsIfAlone ==
    \A r \in DOMAIN flights :
        /\ flights[r].pc = "done" => flights[r].resp \in Alone(model, flights[r].req)
        /\ flights[r].pc = "idle" => flights[r] = IdleFlight

C22_Witness ==
    /\ Len(flights) >= 2
    /\ flights[1].pc = "batch_read" /\ flights[1].idx = 2
    /\ Len(flights[1].results) = 1
    /\ flights[2].pc = "done" /\ flights[2].req.kind = "batch"
    /\ flights[2].resp.status = 200
    /\ Len(flights[2].resp.body.results) = 2

SameButContentType(f, g) == f.filename = g.filename /\ f.data = g.data

C27_BatchIgnoresContentType ==
    \A r1 \in DOMAIN flights : \A r2 \in DOMAIN flights :
        /\ (/\ flights[r1].pc = "done" /\ flights[r1].req.kind = "batch"
            /\ flights[r2].pc = "done" /\ flights[r2].req.kind = "batch"
            /\ flights[r1].resp.status = 200 /\ flights[r2].resp.status = 200
            /\ Len(flights[r1].req.files) = Len(flights[r2].req.files)
            /\ \A i \in 1..Len(flights[r1].req.files) :
                  SameButContentType(flights[r1].req.files[i], flights[r2].req.files[i]))
           => flights[r1].resp.body = flights[r2].resp.body
        /\ (flights[r1].pc = "done" /\ flights[r1].req.kind = "batch"
            /\ flights[r1].resp.status = 200)
           => \A i \in 1..Len(flights[r1].req.files) :
                  LET f == flights[r1].req.files[i]
                  IN  (f.data.kind = "image" /\ f.data.fault = "none")
                          => flights[r1].resp.body.results[i].success

C27_Witness ==
    /\ Len(flights) >= 2
    /\ flights[1].pc = "done" /\ flights[1].req = [kind |-> "batch", files |-> <<F_png, F_bad>>]
    /\ flights[2].pc = "done" /\ flights[2].req = [kind |-> "batch", files |-> <<F_text, F_bad>>]
    /\ flights[1].resp.status = 200 /\ flights[2].resp.status = 200
    /\ flights[1].resp.body = flights[2].resp.body
    /\ flights[2].resp.body.results[1].success
    /\ ~flights[2].resp.body.results[2].success

\* C29: in the paged tables of the dashboard, after any sequence of Next and
\* Previous clicks the stored page index p is at least 0 and, when the table
\* has rows, p * page_size is below their number.
C29_PageIndexInRange ==
    /\ "stats2_page" \in DOMAIN session_state =>
          /\ session_state["stats2_page"] >= 0
          /\ tables.intensity_stats >= 1 =>
                session_state["stats2_page"] * 10 < tables.intensity_stats
    /\ "stats4_page" \in DOMAIN session_state =>
          /\ session_state["stats4_page"] >= 0
          /\ tables.sample_rows >= 1 =>
                session_state["stats4_page"] * 5 < tables.sample_rows

C29_Witness ==
    /\ screen.run = "next" /\ screen.table = "stats4"
    /\ tables.sample_rows = 10
    /\ screen.first = 6
    /\ session_state["stats4_page"] = 1

\* C30: the rows a script run renders are the rows of the page index that
\* session state holds at the end of that run: the run a Next or Previous
\* click triggers shows the page the click moved to.
C30_ClickShowsNewPage ==
    screen.run \in {"next", "prev"} =>
        /\ screen.table = "stats2" =>
              screen.first = session_state["stats2_page"] * 10 + 1
        /\ screen.table = "stats4" =>
              screen.first = session_state["stats4_page"] * 5 + 1

=============================================================================
